---- MODULE Spec2Model ----
(***************************************************************************)
(* BoltzmannRewardPredictionPolicy of tf_agents/bandits/policies:          *)
(* construction (__init__), one policy call (_distribution) and the        *)
(* caller-side updates of the state the policy only borrows (the running   *)
(* sample counts and the temperature schedule).                            *)
(*                                                                         *)
(* Numbers.  A float tensor element is a fixed-point integer: the real x   *)
(* is the integer x * Scale, rounded to the nearest unit.  The finite      *)
(* range of the type is -FMax .. FMax; a result beyond it overflows to     *)
(* PosInf / NegInf, and NaN is a value of its own.  None and the empty     *)
(* tuple () are the empty sequence << >>; a present value v is << v >>.     *)
(* Rows and the arms of a row are 1-based sequences; an action index is    *)
(* the 0-based integer the code works with.                                *)
(***************************************************************************)
EXTENDS Integers, Sequences, FiniteSets, TLC

\* ------------------------------------------------------------------ bounds
Scale == 2          \* fixed-point units per 1.0
FMax == 24          \* largest finite value of the float type, in units
MaxActions == 2     \* largest expected_num_actions of an action spec
MaxCount == 2       \* largest running sample count of one action
MaxCalls == 2       \* calls of one policy that are followed
NoiseSpan == 3      \* widest gap below the largest logit the sampler bridges

\* ------------------------------------------------------------ float values
PosInf == FMax + 1
NegInf == 0 - (FMax + 1)
NaN == FMax + 2
DtypeMin == 0 - FMax

IsNaN(x) == x = NaN
IsInf(x) == x = PosInf \/ x = NegInf
IsFinite(x) == ~IsNaN(x) /\ ~IsInf(x)
Sign(x) == IF x > 0 THEN 1 ELSE IF x < 0 THEN -1 ELSE 0
Abs(x) == IF x < 0 THEN 0 - x ELSE x

\* An exact integer result, brought back into the type: overflow is +-inf.
Overflow(x) == IF x > FMax THEN PosInf ELSE IF x < 0 - FMax THEN NegInf ELSE x

\* p / q for q > 0, rounded to the nearest integer (halves away from zero).
RoundDiv(p, q) == Sign(p) * ((2 * Abs(p) + q) \div (2 * q))

FAdd(a, b) ==
  IF IsNaN(a) \/ IsNaN(b) THEN NaN
  ELSE IF IsInf(a) /\ IsInf(b) THEN (IF a = b THEN a ELSE NaN)
  ELSE IF IsInf(a) THEN a
  ELSE IF IsInf(b) THEN b
  ELSE Overflow(a + b)

FMul(a, b) ==
  IF IsNaN(a) \/ IsNaN(b) THEN NaN
  ELSE IF IsInf(a) \/ IsInf(b)
    THEN (IF a = 0 \/ b = 0 THEN NaN
          ELSE IF Sign(a) * Sign(b) > 0 THEN PosInf ELSE NegInf)
  ELSE Overflow(RoundDiv(a * b, Scale))

FDiv(a, b) ==
  IF IsNaN(a) \/ IsNaN(b) THEN NaN
  ELSE IF IsInf(a) /\ IsInf(b) THEN NaN
  ELSE IF IsInf(a) THEN (IF Sign(a) * Sign(b) >= 0 THEN a ELSE 0 - a)
  ELSE IF IsInf(b) THEN 0
  ELSE IF b = 0
    THEN (IF a = 0 THEN NaN ELSE IF a > 0 THEN PosInf ELSE NegInf)
  ELSE Overflow(Sign(b) * RoundDiv(a * Scale, Abs(b)))

\* tf.sqrt of a float.
FSqrt(x) ==
  IF IsNaN(x) \/ x < 0 THEN NaN
  ELSE IF x = PosInf THEN PosInf
  ELSE CHOOSE r \in 0..(x * Scale + 1) :
         /\ (r = 0 \/ (2 * r - 1) * (2 * r - 1) <= 4 * x * Scale)
         /\ 4 * x * Scale < (2 * r + 1) * (2 * r + 1)

\* tf.cast(n, tf.float32) of an integer count.
ToFloat(n) == Overflow(n * Scale)

\* A plain division, for contrast: x / 0 is an infinity or a NaN.
DivideNoNanUnguarded(x, y) == FDiv(x, y)
\* tf.math.divide_no_nan: x / y, and 0 where y is 0.
DivideNoNan(x, y) == IF y = 0 THEN 0 ELSE FDiv(x, y)

\* a < b on floats: false whenever a NaN is involved.
FLess(a, b) == ~IsNaN(a) /\ ~IsNaN(b) /\ a < b

\* ------------------------------------------------------- options, sequences
None == << >>
Some(x) == << x >>
IsNone(o) == Len(o) = 0
Get(o) == o[1]

\* tf.math.argmax along the action dimension: the 0-based index of the first
\* largest entry of the row.
Argmax(row) ==
  (CHOOSE k \in 1..Len(row) :
     /\ \A j \in 1..Len(row) : ~FLess(row[k], row[j])
     /\ \A j \in 1..(k - 1) : FLess(row[j], row[k])) - 1

RowMax(row) == row[Argmax(row) + 1]

\* ----------------------------------------------------------------- state
VARIABLES
  init_args,          \* the arguments of the __init__ call, once it was made
  constructed,        \* TRUE once __init__ has returned a policy
  self,               \* the fields __init__ stores on the policy
  raised,             \* the exception the last operation raised, or "none"
  num_samples_list,   \* the caller's tf.Variables: one running count per action
  temperature_source, \* what the caller's temperature callable returns now
  policy_state,       \* the recurrent state handed from call to call
  step,               \* what the last _distribution call computed and returned
  probes,             \* reads of the borrowed state made by the calls so far
  calls               \* number of _distribution calls so far

vars == << init_args, constructed, self, raised, num_samples_list, temperature_source,
           policy_state, step, probes, calls >>

\* ------------------------------------------------------------ construction
\* policy_utilities.InfoFields: the names an emission set may hold.
LOG_PROBABILITY == "log_probability"
PREDICTED_REWARDS_MEAN == "predicted_rewards_mean"
BANDIT_POLICY_TYPE == "bandit_policy_type"
CHOSEN_ARM_FEATURES == "chosen_arm_features"
InfoFields ==
  { LOG_PROBABILITY, PREDICTED_REWARDS_MEAN, BANDIT_POLICY_TYPE,
    CHOSEN_ARM_FEATURES }
BOLTZMANN == "BOLTZMANN"

\* A bounded scalar int32 spec [minimum, maximum], and the shapes __init__
\* rejects.
BoundedSpec(lo, hi) ==
  [ minimum |-> lo, maximum |-> hi, bounded |-> TRUE, discrete |-> TRUE,
    rank |-> 0, num_elements |-> 1 ]

\* policy_utilities.check_no_mask_with_arm_features.
CheckNoMaskWithArmFeatures(accepts_per_arm_features, splitter) ==
  IF accepts_per_arm_features /\ splitter THEN "NotImplementedError"
  ELSE "none"

\* The checks of the action spec.
ActionSpecError(flat_action_spec) ==
  IF Len(flat_action_spec) > 1 THEN "NotImplementedError"
  ELSE LET action_spec == flat_action_spec[1] IN
    IF \/ ~action_spec.bounded
       \/ ~action_spec.discrete
       \/ action_spec.rank > 1
       \/ action_spec.num_elements # 1
    THEN "NotImplementedError" ELSE "none"

ExpectedNumActions(action_spec) ==
  action_spec.maximum - action_spec.minimum + 1
ActionOffset(action_spec) == action_spec.minimum

\* The offset a Boltzmann-Gumbel policy is refused for.
OffsetRefused(action_offset) == action_offset > 0

\* For contrast: the checks below without the one of the list's length.
GumbelCheckSkipsLength(a) ==
  LET c == Get(a.boltzmann_gumbel_exploration_constant)
      action_spec == a.action_spec[1] IN
  IF c <= 0 THEN "ValueError"
  ELSE IF OffsetRefused(ActionOffset(action_spec)) THEN "NotImplementedError"
  ELSE IF a.accepts_per_arm_features THEN "NotImplementedError"
  ELSE "none"
\* The checks made when boltzmann_gumbel_exploration_constant is not None.
GumbelCheck(a) ==
  LET c == Get(a.boltzmann_gumbel_exploration_constant)
      action_spec == a.action_spec[1] IN
  IF c <= 0 THEN "ValueError"
  ELSE IF OffsetRefused(ActionOffset(action_spec)) THEN "NotImplementedError"
  ELSE IF a.accepts_per_arm_features THEN "NotImplementedError"
  ELSE IF Len(a.num_samples_list) # ExpectedNumActions(action_spec)
    THEN "ValueError"
  ELSE "none"

\* The exception __init__ raises for the arguments a, or "none".
InitError(a) ==
  IF CheckNoMaskWithArmFeatures(a.accepts_per_arm_features, a.splitter) # "none"
    THEN CheckNoMaskWithArmFeatures(a.accepts_per_arm_features, a.splitter)
  ELSE IF ActionSpecError(a.action_spec) # "none"
    THEN ActionSpecError(a.action_spec)
  ELSE IF ~IsNone(a.boltzmann_gumbel_exploration_constant)
    THEN GumbelCheck(a)
  ELSE "none"

\* The info spec __init__ hands to the base class: for each field, whether a
\* call's info record holds a value there.
InfoSpec(a) ==
  [ log_probability |-> LOG_PROBABILITY \in a.emit_policy_info,
    predicted_rewards_mean |-> PREDICTED_REWARDS_MEAN \in a.emit_policy_info,
    bandit_policy_type |-> BANDIT_POLICY_TYPE \in a.emit_policy_info,
    chosen_arm_features |-> a.accepts_per_arm_features ]

\* The fields __init__ stores.
InitFields(a) ==
  [ temperature |-> a.temperature,
    expected_num_actions |-> ExpectedNumActions(a.action_spec[1]),
    action_offset |-> ActionOffset(a.action_spec[1]),
    constraints |-> a.constraints,
    boltzmann_gumbel_exploration_constant |->
      a.boltzmann_gumbel_exploration_constant,
    emit_policy_info |-> a.emit_policy_info,
    accepts_per_arm_features |-> a.accepts_per_arm_features,
    splitter |-> a.splitter,
    info_spec |-> InfoSpec(a) ]

NoPolicy ==
  [ temperature |-> [ callable |-> FALSE, value |-> Scale ],
    expected_num_actions |-> 0,
    action_offset |-> 0,
    constraints |-> 0,
    boltzmann_gumbel_exploration_constant |-> None,
    emit_policy_info |-> {},
    accepts_per_arm_features |-> FALSE,
    splitter |-> FALSE,
    info_spec |-> [ log_probability |-> FALSE, predicted_rewards_mean |-> FALSE,
                    bandit_policy_type |-> FALSE,
                    chosen_arm_features |-> FALSE ] ]

NoStep ==
  [ mask |-> None, predicted_reward_values |-> << >>, temperature |-> None,
    logits |-> << >>, exploration_weights |-> << >>, final_logits |-> << >>,
    gumbel_samples |-> << >>, arm_features |-> None, actions |-> << >>, log_probability |-> << >>,
    info |-> [ log_probability |-> None, predicted_rewards_mean |-> None,
               bandit_policy_type |-> None, chosen_arm_features |-> None ] ]

NoProbes ==
  [ temperature_evals |-> << >>, num_samples_reads |-> 0 ]

\* __init__(...) with the arguments a drawn from Args.
Construct(Args) ==
  /\ IsNone(init_args)
  /\ \E a \in Args :
       /\ init_args' = Some(a)
       /\ raised' = InitError(a)
       /\ constructed' = (InitError(a) = "none")
       /\ self' = IF InitError(a) = "none" THEN InitFields(a) ELSE NoPolicy
       /\ num_samples_list' = a.num_samples_list
  /\ UNCHANGED << temperature_source, policy_state, step, probes, calls >>

\* ---------------------------------------------------------- one policy call
NumRows(m) == Len(m)
Rows(m) == 1..Len(m)
Arms == 1..self.expected_num_actions

UsesGumbel == ~IsNone(self.boltzmann_gumbel_exploration_constant)

\* constr.construct_mask_from_multiple_sources: the splitter's mask and the
\* constraints' masks, and-ed; None when there is neither.
ConstructMaskFromMultipleSources(splitter_mask, constraint_masks) ==
  IF IsNone(splitter_mask) /\ Len(constraint_masks) = 0 THEN None
  ELSE LET first == IF IsNone(splitter_mask) THEN constraint_masks[1]
                    ELSE Get(splitter_mask) IN
       Some([ b \in Rows(first) |-> [ k \in 1..Len(first[b]) |->
                IF /\ first[b][k] = 1
                   /\ \A i \in 1..Len(constraint_masks) :
                        constraint_masks[i][b][k] = 1
                THEN 1 ELSE 0 ] ])

\* For contrast: a callable temperature evaluated by the first call only,
\* its value kept for the later ones.
GetTemperatureValueMemo ==
  IF self.temperature.callable
  THEN IF Len(probes.temperature_evals) > 0
       THEN [ value |-> probes.temperature_evals[1], evals |-> << >> ]
       ELSE [ value |-> temperature_source, evals |-> << temperature_source >> ]
  ELSE [ value |-> self.temperature.value, evals |-> << >> ]
\* _get_temperature_value: the value, and the values the callable returned
\* on the way (none when the temperature is a plain number).
GetTemperatureValue ==
  IF self.temperature.callable
  THEN [ value |-> temperature_source, evals |-> << temperature_source >> ]
  ELSE [ value |-> self.temperature.value, evals |-> << >> ]

\* predicted_reward_values / temperature.
ScaleByTemperature(predicted_reward_values, temperature) ==
  [ b \in Rows(predicted_reward_values) |->
    [ k \in 1..Len(predicted_reward_values[b]) |->
      FDiv(predicted_reward_values[b][k], temperature) ] ]

\* tf.where(mask, logits, logits.dtype.min), when there is a mask.
ApplyMask(logits, mask) ==
  IF IsNone(mask) THEN logits
  ELSE [ b \in Rows(logits) |-> [ k \in 1..Len(logits[b]) |->
         IF Get(mask)[b][k] = 1 THEN logits[b][k] ELSE DtypeMin ] ]

\* The stacked x.read_value() of the counters, cast to float.
NumSamplesListFloat(counters) ==
  [ k \in 1..Len(counters) |-> ToFloat(counters[k]) ]

\* For contrast: a call that itself counts the actions it chose.
CountersAfterAssignAdd(counters, actions) ==
  [ k \in 1..Len(counters) |->
    IF \E b \in 1..Len(actions) : actions[b] = k - 1
    THEN counters[k] + 1 ELSE counters[k] ]
\* The counters after one call: read_value() reads them, nothing assigns.
CountersAfterCall(counters, actions) == counters

\* For contrast: constant / sqrt(counts) by a plain division.
ExplorationWeightsUnguarded(c, num_samples_list_float) ==
  [ k \in 1..Len(num_samples_list_float) |->
    DivideNoNanUnguarded(c, FSqrt(num_samples_list_float[k])) ]
\* divide_no_nan(constant, sqrt(counts)).
ExplorationWeights(c, num_samples_list_float) ==
  [ k \in 1..Len(num_samples_list_float) |->
    DivideNoNan(c, FSqrt(num_samples_list_float[k])) ]

\* logits + exploration_weights * gumbel_samples.
FinalLogits(logits, exploration_weights, gumbel_samples) ==
  [ b \in Rows(logits) |-> [ k \in 1..Len(logits[b]) |->
    FAdd(logits[b][k], FMul(exploration_weights[k], gumbel_samples[b][k])) ] ]

\* tf.math.argmax(final_logits, axis=1).
GumbelActions(final_logits) ==
  [ b \in Rows(final_logits) |-> Argmax(final_logits[b]) ]

\* The arms Categorical(logits).sample() can return for one row: those whose
\* logit is within the sampler's noise span of the row's largest (all of
\* them when no logit is a number).
SampleSupport(row) ==
  LET near == { k \in 1..Len(row) :
                  /\ ~IsNaN(row[k])
                  /\ ~FLess(FAdd(row[k], NoiseSpan), RowMax(row)) } IN
  IF near = {} THEN 1..Len(row) ELSE near

\* Categorical / ShiftedCategorical sample: the drawn arm of each row, moved
\* by the shift.
CategoricalSample(pick, shift) ==
  [ b \in 1..Len(pick) |-> (pick[b] - 1) + shift ]

\* distribution.log_prob(actions): the logit of the drawn arm less the
\* normaliser of its row, the normaliser taken at its leading term.
CategoricalLogProb(logits, actions, shift) ==
  [ b \in Rows(logits) |->
    FAdd(logits[b][(actions[b] - shift) + 1], 0 - RowMax(logits[b])) ]

\* tf.gather(params=obs, indices=actions, batch_dims=1): is every index a
\* position of its row?
GatherInBounds(obs, actions) ==
  \A b \in Rows(obs) : actions[b] >= 0 /\ actions[b] < Len(obs[b])
\* The gathered slices; an index outside the row yields zeros where the
\* kernel does not raise.
Gather(obs, actions) ==
  [ b \in Rows(obs) |->
    IF actions[b] >= 0 /\ actions[b] < Len(obs[b])
    THEN obs[b][actions[b] + 1] ELSE 0 ]

\* tf.fill([batch_size, 1], BanditPolicyType.BOLTZMANN).
BanditPolicyValues(batch_size) == [ b \in 1..batch_size |-> << BOLTZMANN >> ]

\* For contrast: an info record whose log_probability is always filled in.
PolicyInfoUngated(log_probability, predicted_reward_values, bandit, chosen) ==
  [ log_probability |-> Some(log_probability),
    predicted_rewards_mean |->
      IF PREDICTED_REWARDS_MEAN \in self.emit_policy_info
      THEN Some(predicted_reward_values) ELSE None,
    bandit_policy_type |->
      IF BANDIT_POLICY_TYPE \in self.emit_policy_info
      THEN Some(bandit) ELSE None,
    chosen_arm_features |-> chosen ]
\* The info record of a call: PerArmPolicyInfo when chosen holds the chosen
\* arm features, PolicyInfo (which has no such field) when it is None.
PolicyInfo(log_probability, predicted_reward_values, bandit, chosen) ==
  [ log_probability |->
      IF LOG_PROBABILITY \in self.emit_policy_info
      THEN Some(log_probability) ELSE None,
    predicted_rewards_mean |->
      IF PREDICTED_REWARDS_MEAN \in self.emit_policy_info
      THEN Some(predicted_reward_values) ELSE None,
    bandit_policy_type |->
      IF BANDIT_POLICY_TYPE \in self.emit_policy_info
      THEN Some(bandit) ELSE None,
    chosen_arm_features |-> chosen ]

\* The reward network's next recurrent state.
NetworkState(state) == 1 - state

\* For contrast: Boltzmann-Gumbel logits scaled by the temperature.
GumbelLogitsScaled(predicted_reward_values) ==
  ScaleByTemperature(predicted_reward_values,
                     IF self.temperature.callable THEN temperature_source
                     ELSE self.temperature.value)
\* logits of the Boltzmann-Gumbel branch, before masking.
GumbelLogits(predicted_reward_values) == predicted_reward_values

\* The Boltzmann-Gumbel branch of _distribution.
GumbelPath(ts, mask) ==
  LET logits == ApplyMask(GumbelLogits(ts.predictions), mask)
      num_samples_list_float == NumSamplesListFloat(num_samples_list)
      exploration_weights ==
        ExplorationWeights(Get(self.boltzmann_gumbel_exploration_constant),
                           num_samples_list_float)
      final_logits == FinalLogits(logits, exploration_weights, ts.gumbel_samples)
  IN [ temperature |-> None, evals |-> << >>, reads |-> 1,
       logits |-> logits, exploration_weights |-> exploration_weights,
       final_logits |-> final_logits,
       gumbel_samples |-> ts.gumbel_samples,
       actions |-> GumbelActions(final_logits),
       log_probability |-> [ b \in Rows(ts.predictions) |-> 0 ] ]

\* The temperature branch of _distribution; pick[b] is the arm the sampler
\* draws for row b.
TemperaturePath(ts, mask, pick) ==
  LET t == GetTemperatureValue
      logits == ApplyMask(ScaleByTemperature(ts.predictions, t.value), mask)
      shift == IF self.action_offset # 0 THEN self.action_offset ELSE 0
      actions == CategoricalSample(pick, shift)
  IN [ temperature |-> Some(t.value), evals |-> t.evals, reads |-> 0,
       logits |-> logits, exploration_weights |-> << >>,
       final_logits |-> << >>, gumbel_samples |-> << >>,
       actions |-> actions,
       log_probability |-> CategoricalLogProb(logits, actions, shift) ]

Exploration(ts, mask, pick) ==
  IF UsesGumbel THEN GumbelPath(ts, mask) ELSE TemperaturePath(ts, mask, pick)

\* The draws the sampler can make in a call: one arm per row, out of the
\* support of the row's masked, scaled logits (a Boltzmann-Gumbel call
\* draws no arm: its pick is fixed).
Draws(ts, mask) ==
  IF UsesGumbel THEN { [ b \in Rows(ts.predictions) |-> 1 ] }
  ELSE LET logits == ApplyMask(ScaleByTemperature(ts.predictions,
                                 GetTemperatureValue.value), mask) IN
       { pick \in [ Rows(ts.predictions) -> Arms ] :
           \A b \in Rows(ts.predictions) : pick[b] \in SampleSupport(logits[b]) }

ProbesAfter(e) ==
  [ temperature_evals |-> probes.temperature_evals \o e.evals,
    num_samples_reads |-> probes.num_samples_reads + e.reads ]

\* The PolicyStep (and the locals it was built from) of a call that returns.
StepOf(ts, mask, e, chosen_arm_features) ==
  [ mask |-> mask,
    predicted_reward_values |-> ts.predictions,
    temperature |-> e.temperature,
    logits |-> e.logits,
    exploration_weights |-> e.exploration_weights,
    final_logits |-> e.final_logits,
    gumbel_samples |-> e.gumbel_samples,
    arm_features |-> ts.arm_features,
    actions |-> e.actions,
    log_probability |-> e.log_probability,
    info |-> PolicyInfo(e.log_probability, ts.predictions,
                        BanditPolicyValues(NumRows(ts.predictions)),
                        chosen_arm_features) ]

\* No call is outstanding: the caller holds neither a step nor an exception.
Idle == step = NoStep /\ raised = "none"

\* _distribution(time_step, policy_state) for a time step ts drawn from
\* TimeSteps: the prediction of the reward network, the masks, the noise.
Call(TimeSteps) ==
  /\ constructed
  /\ Idle
  /\ calls < MaxCalls
  /\ calls' = calls + 1
  /\ \E ts \in TimeSteps :
       IF \E b \in Rows(ts.predictions) :
            Len(ts.predictions[b]) # self.expected_num_actions
       THEN \* the reward network's output has the wrong size
            /\ raised' = "ValueError"
            /\ step' = NoStep
            /\ UNCHANGED << probes, policy_state, num_samples_list >>
       ELSE
         \E mask \in { ConstructMaskFromMultipleSources(ts.splitter_mask,
                                                       ts.constraint_masks) } :
         \E pick \in Draws(ts, mask) :
         \E e \in { Exploration(ts, mask, pick) } :
         \E kernel_raises \in
              IF \/ ~self.accepts_per_arm_features
                 \/ GatherInBounds(Get(ts.arm_features), e.actions)
              THEN { FALSE } ELSE BOOLEAN :
           /\ probes' = ProbesAfter(e)
           /\ num_samples_list' = CountersAfterCall(num_samples_list, e.actions)
           /\ IF kernel_raises
              THEN /\ raised' = "InvalidArgumentError"
                   /\ step' = NoStep
                   /\ UNCHANGED policy_state
              ELSE /\ raised' = "none"
                   /\ policy_state' = NetworkState(policy_state)
                   /\ step' = StepOf(ts, mask, e,
                        IF self.accepts_per_arm_features
                        THEN Some(Gather(Get(ts.arm_features), e.actions))
                        ELSE None)
  /\ UNCHANGED << init_args, constructed, self, temperature_source >>

\* The counters after the caller has counted the chosen actions: one more
\* sample of each chosen action that has a counter (counting stops at
\* MaxCount).
Counted(counters, actions) ==
  [ k \in 1..Len(counters) |->
    IF counters[k] < MaxCount /\ \E b \in 1..Len(actions) : actions[b] = k - 1
    THEN counters[k] + 1 ELSE counters[k] ]

\* The caller takes what the call returned (or raised) and counts the
\* actions it chose.
Observe ==
  /\ constructed
  /\ ~Idle
  /\ step' = NoStep
  /\ raised' = "none"
  /\ num_samples_list' = Counted(num_samples_list, step.actions)
  /\ UNCHANGED << init_args, constructed, self, temperature_source,
                  policy_state, probes, calls >>

\* The caller's schedule moves the temperature its callable returns.
TempVals == { Scale, 2 * Scale }
SetTemperature ==
  /\ constructed
  /\ self.temperature.callable
  /\ \E t \in TempVals \ { temperature_source } : temperature_source' = t
  /\ UNCHANGED << init_args, constructed, self, raised, num_samples_list,
                  policy_state, step, probes, calls >>

Init ==
  /\ init_args = None
  /\ constructed = FALSE
  /\ self = NoPolicy
  /\ raised = "none"
  /\ num_samples_list = << >>
  /\ temperature_source \in TempVals
  /\ policy_state = 0
  /\ step = NoStep
  /\ probes = NoProbes
  /\ calls = 0

\* --------------------------------------------------- arguments and inputs
Matrices(B, N, V) == [ 1..B -> [ 1..N -> V ] ]

ValidActionSpecs ==
  { << BoundedSpec(lo, lo + n - 1) >> : lo \in { -1, 0, 1 }, n \in 2..MaxActions }

InvalidActionSpecs ==
  { << BoundedSpec(0, 1), BoundedSpec(0, 1) >>,
    << [ BoundedSpec(0, 1) EXCEPT !.bounded = FALSE ] >>,
    << [ BoundedSpec(0, 1) EXCEPT !.discrete = FALSE ] >>,
    << [ BoundedSpec(0, 1) EXCEPT !.rank = 2 ] >>,
    << [ BoundedSpec(0, 1) EXCEPT !.num_elements = 2 ] >> }

\* A plain temperature of 2.0, and a callable one.
Temperatures ==
  { [ callable |-> FALSE, value |-> 2 * Scale ],
    [ callable |-> TRUE, value |-> 0 ] }

Zeros(n) == [ k \in 1..n |-> 0 ]
\* Counters of a run under way: the first action never tried, the others
\* tried MaxCount times.
Staggered(n) == [ k \in 1..n |-> IF k = 1 THEN 0 ELSE MaxCount ]

\* The sample-count lists tried with an action spec: none, one counter per
\* action, one counter too few.
NumSamplesLists(flat_action_spec) ==
  LET n == ExpectedNumActions(flat_action_spec[1]) IN
  { << >>, Zeros(n), Staggered(n), Zeros(n - 1) }
\* No counters, or the counters of a run under way.
RunningLists(flat_action_spec) ==
  { << >>, Staggered(ExpectedNumActions(flat_action_spec[1])) }
\* The argument records over the given choices; the lists are the running
\* ones, and with AllLists every list of NumSamplesLists.
ArgsOf(Specs, Temps, Constants, Splitters, PerArm, Constraints, Emits, AllLists) ==
  UNION { { [ action_spec |-> s, temperature |-> t,
              boltzmann_gumbel_exploration_constant |-> c, splitter |-> sp,
              accepts_per_arm_features |-> pa, constraints |-> nc,
              emit_policy_info |-> em, num_samples_list |-> nl ] :
            t \in Temps, c \in Constants, sp \in Splitters,
            pa \in PerArm, nc \in Constraints, em \in Emits,
            nl \in IF AllLists THEN NumSamplesLists(s) ELSE RunningLists(s) } :
          s \in Specs }

\* The hand-built per-arm feature block: arm k of row b carries 10 b + k.
ArmFeatures(B, N) == [ b \in 1..B |-> [ k \in 1..N |-> 10 * b + k ] ]

\* The masks a constraint is tried with: every action feasible, or the
\* first action of every row infeasible.
ConstraintMasks(B, N) ==
  { [ b \in 1..B |-> [ k \in 1..N |-> 1 ] ],
    [ b \in 1..B |-> [ k \in 1..N |-> IF k = 1 THEN 0 ELSE 1 ] ] }

\* The time steps of B rows a call of the current policy is tried with:
\* predictions over V (and one of the wrong width), every 0/1 mask of the
\* splitter and the masks of the constraint when the policy has them, noise
\* over G in Boltzmann-Gumbel mode.
TimeStepsOf(B, V, G) ==
  LET N == self.expected_num_actions IN
  { [ predictions |-> p, splitter_mask |-> sm, constraint_masks |-> cm,
      gumbel_samples |-> g, arm_features |-> f ] :
    p \in Matrices(B, N, V) \cup { [ b \in 1..B |-> Zeros(N + 1) ] },
    sm \in IF self.splitter
           THEN { Some(m) : m \in Matrices(B, N, { 0, 1 }) } ELSE { None },
    cm \in [ 1..self.constraints -> ConstraintMasks(B, N) ],
    g \in IF UsesGumbel THEN Matrices(B, N, G) ELSE { [ b \in 1..B |-> Zeros(N) ] },
    f \in IF self.accepts_per_arm_features
          THEN { Some(ArmFeatures(B, N)) } ELSE { None } }

\* --------------------------------------------------------- specifications
\* Construction alone, over every combination of arguments.
AllArgs ==
  ArgsOf(ValidActionSpecs \cup InvalidActionSpecs, Temperatures,
         { None, Some(0 - Scale), Some(0), Some(Scale) },
         BOOLEAN, BOOLEAN, { 0, 1 }, { {}, InfoFields }, TRUE)

NextInit == Construct(AllArgs)

SpecInit == Init /\ [][NextInit]_vars

\* Exploration: both modes, masks from a splitter and from a constraint,
\* one row per call.
CoreArgs ==
  ArgsOf(ValidActionSpecs, Temperatures, { None, Some(Scale) },
         BOOLEAN, { FALSE }, { 0, 1 }, { {} }, FALSE)
RewardVals == { DtypeMin, 0, 2 * Scale }
GumbelVals == { 0 - Scale, 2 * Scale }

Next ==
  \/ Construct(CoreArgs)
  \/ Call(TimeStepsOf(1, RewardVals, GumbelVals))
  \/ Observe
  \/ SetTemperature

Spec == Init /\ [][Next]_vars

\* The info record: every emission set, with and without per-arm features,
\* two rows per call, every arm of a row equally rewarded.
InfoArgs ==
  ArgsOf(ValidActionSpecs, { [ callable |-> FALSE, value |-> Scale ] },
         { None, Some(Scale) }, { FALSE }, BOOLEAN, { 0 },
         SUBSET InfoFields, FALSE)
InfoRewardVals == { 0 }

NextInfo ==
  \/ Construct(InfoArgs)
  \/ Call(TimeStepsOf(2, InfoRewardVals, GumbelVals))
  \/ Observe

SpecInfo == Init /\ [][NextInfo]_vars

\* ------------------------------------------------------------------ claims
\* A call has returned and the caller has not yet taken its step.
Returned == step # NoStep

\* The column of the logits (the arm, 0-based) the returned action of row b
\* stands for: the arg-max index itself in Boltzmann-Gumbel mode, the drawn
\* index before the shift in temperature mode.
ChosenArm(b) ==
  IF UsesGumbel THEN step.actions[b] ELSE step.actions[b] - self.action_offset

Populated(field) == ~IsNone(field)

\* C1: whenever a mask is supplied, in every row that has an eligible
\* action the chosen action is an eligible one (its mask value is 1).
C1_MaskedActionNeverChosen ==
  (Returned /\ ~IsNone(step.mask)) =>
    \A b \in Rows(step.actions) :
      (\E k \in Arms : Get(step.mask)[b][k] = 1)
        => Get(step.mask)[b][ChosenArm(b) + 1] = 1

\* C2: the action returned for each row lies within
\* [action_offset, action_offset + expected_num_actions - 1].
C2_ActionWithinSpec ==
  Returned =>
    \A b \in Rows(step.actions) :
      /\ step.actions[b] >= self.action_offset
      /\ step.actions[b] <= self.action_offset + self.expected_num_actions - 1

\* C3: with a Boltzmann-Gumbel constant supplied, construction fails for
\* every action spec whose minimum is not zero.
C3_GumbelRequiresZeroOffset ==
  ( /\ ~IsNone(init_args)
    /\ ~IsNone(Get(init_args).boltzmann_gumbel_exploration_constant)
    /\ Get(init_args).action_spec[1].minimum # 0 )
  => ~constructed

\* C4: in per-arm mode the chosen_arm_features of each row are the features
\* of the action taken in that row, and the gather key is a position of the
\* per-arm feature block.
C4_ChosenArmFeaturesOfTakenAction ==
  (Returned /\ self.accepts_per_arm_features) =>
    \A b \in Rows(step.actions) :
      /\ step.actions[b] \in 0..(self.expected_num_actions - 1)
      /\ Get(step.info.chosen_arm_features)[b]
           = Get(step.arm_features)[b][ChosenArm(b) + 1]

\* C5 as stated: each of the four optional info fields is populated only if
\* its name is in the emission set.
C5_EveryFieldGatedByEmissionSet ==
  Returned =>
    /\ Populated(step.info.log_probability)
         => LOG_PROBABILITY \in self.emit_policy_info
    /\ Populated(step.info.predicted_rewards_mean)
         => PREDICTED_REWARDS_MEAN \in self.emit_policy_info
    /\ Populated(step.info.bandit_policy_type)
         => BANDIT_POLICY_TYPE \in self.emit_policy_info
    /\ Populated(step.info.chosen_arm_features)
         => CHOSEN_ARM_FEATURES \in self.emit_policy_info

\* C5 as amended: log_probability, predicted_rewards_mean and
\* bandit_policy_type are populated exactly when their name is in the
\* emission set the policy was constructed with; chosen_arm_features is
\* populated exactly when the policy accepts per-arm features, whatever the
\* emission set; and the record has the shape of the info spec.
C5_InfoGating ==
  Returned =>
    LET emit == Get(init_args).emit_policy_info IN
    /\ Populated(step.info.log_probability) <=> LOG_PROBABILITY \in emit
    /\ Populated(step.info.predicted_rewards_mean)
         <=> PREDICTED_REWARDS_MEAN \in emit
    /\ Populated(step.info.bandit_policy_type) <=> BANDIT_POLICY_TYPE \in emit
    /\ Populated(step.info.chosen_arm_features)
         <=> Get(init_args).accepts_per_arm_features
    /\ \A f \in DOMAIN self.info_spec :
         Populated(step.info[f]) <=> self.info_spec[f]

\* A per-arm policy constructed with only predicted_rewards_mean has
\* returned: that field and chosen_arm_features are populated, the others
\* empty.
C5_Witness ==
  /\ Returned
  /\ self.accepts_per_arm_features
  /\ self.emit_policy_info = { PREDICTED_REWARDS_MEAN }
  /\ Populated(step.info.predicted_rewards_mean)
  /\ Populated(step.info.chosen_arm_features)
  /\ ~Populated(step.info.log_probability)
  /\ ~Populated(step.info.bandit_policy_type)

\* C6: a call changes no entry of num_samples_list, nor the policy's fields
\* or the temperature source; of the state that outlives it, it changes
\* only the recurrent policy state.
C6_CallLeavesCountsAlone ==
  [][ calls' # calls =>
        /\ num_samples_list' = num_samples_list
        /\ self' = self
        /\ constructed' = constructed
        /\ init_args' = init_args
        /\ temperature_source' = temperature_source ]_vars

\* The second call of a policy has returned, with counters the caller has
\* moved since construction.
C6_Witness ==
  /\ Returned
  /\ calls = 2
  /\ Len(num_samples_list) > 0
  /\ num_samples_list # Get(init_args).num_samples_list
  /\ policy_state = 0

\* C7: in Boltzmann-Gumbel mode the bonus of an action whose count is zero
\* is exactly 0 and its final score is its masked logit; the bonus of an
\* action with count n > 0 is the finite number c / sqrt(n).
C7_ZeroCountZeroBonus ==
  (Returned /\ UsesGumbel) =>
    \A k \in Arms :
      /\ num_samples_list[k] = 0 =>
           /\ step.exploration_weights[k] = 0
           /\ \A b \in Rows(step.logits) :
                step.final_logits[b][k] = step.logits[b][k]
      /\ num_samples_list[k] > 0 =>
           /\ step.exploration_weights[k] =
                FDiv(Get(self.boltzmann_gumbel_exploration_constant),
                     FSqrt(ToFloat(num_samples_list[k])))
           /\ IsFinite(step.exploration_weights[k])

\* A Boltzmann-Gumbel call has returned with one action never tried and
\* another whose bonus moved its score off its logit.
C7_Witness ==
  /\ Returned
  /\ UsesGumbel
  /\ \E k \in Arms : num_samples_list[k] = 0
  /\ \E k \in Arms :
       /\ num_samples_list[k] > 1
       /\ step.exploration_weights[k] > 0
       /\ step.final_logits[1][k] # step.logits[1][k]

\* C8: with a constant supplied, construction fails when the constant is
\* not positive, when per-arm features are requested, or when the length of
\* num_samples_list is not expected_num_actions; without a constant none of
\* the three is checked, so construction succeeds whenever the action spec
\* is a single bounded discrete scalar and no splitter meets per-arm
\* features.
C8_GumbelConstructionChecks ==
  ~IsNone(init_args) =>
    LET a == Get(init_args)
        n == a.action_spec[1].maximum - a.action_spec[1].minimum + 1 IN
    /\ ( /\ ~IsNone(a.boltzmann_gumbel_exploration_constant)
         /\ \/ Get(a.boltzmann_gumbel_exploration_constant) <= 0
            \/ a.accepts_per_arm_features
            \/ Len(a.num_samples_list) # n )
       => (~constructed /\ raised \in { "ValueError", "NotImplementedError" })
    /\ ( /\ IsNone(a.boltzmann_gumbel_exploration_constant)
         /\ ~(a.accepts_per_arm_features /\ a.splitter)
         /\ Len(a.action_spec) = 1
         /\ a.action_spec[1].bounded /\ a.action_spec[1].discrete
         /\ a.action_spec[1].rank <= 1 /\ a.action_spec[1].num_elements = 1 )
       => (constructed /\ raised = "none")

\* Construction was refused for the length of num_samples_list alone.
C8_Witness ==
  /\ ~IsNone(init_args)
  /\ ~constructed
  /\ raised = "ValueError"
  /\ ~IsNone(Get(init_args).boltzmann_gumbel_exploration_constant)
  /\ Get(Get(init_args).boltzmann_gumbel_exploration_constant) > 0
  /\ ~Get(init_args).accepts_per_arm_features
  /\ Len(Get(init_args).action_spec) = 1
  /\ Get(init_args).action_spec[1].bounded
  /\ Get(init_args).action_spec[1].discrete
  /\ Get(init_args).action_spec[1].rank = 0
  /\ Get(init_args).action_spec[1].num_elements = 1
  /\ Get(init_args).action_spec[1].minimum = 0
  /\ Len(Get(init_args).num_samples_list) = 1
  /\ Get(init_args).action_spec[1].maximum = 1

\* C9: the mode is the one fixed at construction.  A Boltzmann-Gumbel
\* policy never evaluates the temperature source: its logits are the masked
\* predictions, unscaled, its scores those logits plus weight times noise,
\* its action their arg-max and its log-probability zero.  A temperature
\* policy never reads num_samples_list and computes no exploration weights.
C9_OneModePerPolicy ==
  constructed =>
    /\ self.boltzmann_gumbel_exploration_constant
         = Get(init_args).boltzmann_gumbel_exploration_constant
    /\ UsesGumbel =>
         /\ probes.temperature_evals = << >>
         /\ Returned =>
              /\ IsNone(step.temperature)
              /\ step.logits = ApplyMask(step.predicted_reward_values, step.mask)
              /\ Len(step.exploration_weights) = self.expected_num_actions
              /\ \A b \in Rows(step.actions) :
                   /\ \A k \in Arms :
                        step.final_logits[b][k] =
                          FAdd(step.logits[b][k],
                               FMul(step.exploration_weights[k],
                                    step.gumbel_samples[b][k]))
                   /\ step.actions[b] = Argmax(step.final_logits[b])
                   /\ step.log_probability[b] = 0
    /\ ~UsesGumbel =>
         /\ probes.num_samples_reads = 0
         /\ Returned =>
              /\ ~IsNone(step.temperature)
              /\ step.exploration_weights = << >>
              /\ step.final_logits = << >>

\* The second call of a Boltzmann-Gumbel policy has returned while its
\* temperature source stands at 2.0, on a prediction that is not all zero.
C9_Witness ==
  /\ Returned
  /\ calls = 2
  /\ UsesGumbel
  /\ self.temperature.callable
  /\ temperature_source = 2 * Scale
  /\ probes.num_samples_reads = 2
  /\ \E k \in Arms : step.predicted_reward_values[1][k] = 2 * Scale

\* C10: a temperature-mode call that returns has scaled the logits by the
\* value the source returns during that call, evaluated exactly once, when
\* the temperature is callable, and by the stored number, evaluating
\* nothing, when it is not.
C10_TemperatureReadEachCall ==
  [][ (calls' # calls /\ ~UsesGumbel /\ step' # NoStep) =>
        IF self.temperature.callable
        THEN /\ step'.temperature = Some(temperature_source)
             /\ probes'.temperature_evals
                  = Append(probes.temperature_evals, temperature_source)
             /\ step'.logits =
                  ApplyMask(ScaleByTemperature(step'.predicted_reward_values,
                                               temperature_source),
                            step'.mask)
        ELSE /\ step'.temperature = Some(self.temperature.value)
             /\ probes'.temperature_evals = probes.temperature_evals
             /\ step'.logits =
                  ApplyMask(ScaleByTemperature(step'.predicted_reward_values,
                                               self.temperature.value),
                            step'.mask) ]_vars

\* The second call has used a value of the source other than the one the
\* first call used.
C10_Witness ==
  /\ Returned
  /\ ~UsesGumbel
  /\ self.temperature.callable
  /\ Len(probes.temperature_evals) = 2
  /\ probes.temperature_evals[1] # probes.temperature_evals[2]
  /\ step.temperature = Some(probes.temperature_evals[2])

====
